---- MODULE Spec2Model ----
(***************************************************************************)
(* Task lifecycle of the browser-automation API: the /execute and /cancel  *)
(* handlers of browser_api.py, the process-wide registry active_tasks, and *)
(* the execution body run_agent_task of agent_runner.py, as coroutines on  *)
(* one cooperative event loop.  One step of the model is the code between  *)
(* two suspension points (await) of one coroutine.                         *)
(***************************************************************************)
EXTENDS Integers, Sequences, FiniteSets, TLC

VARIABLES
    clock,          \* time.time(), in abstract seconds
    active_tasks,   \* browser_api.active_tasks: task id -> BrowserTask object
    browser_task,   \* the BrowserTask objects, named by the execution that made them
    req,            \* the TaskRequest of each execute_task call
    start_time,     \* execute_task's local start_time
    pc,             \* where each execute_task call is
    raised,         \* the exception in flight in (or raised by) run_agent_task
    history,        \* the value agent.run returned
    browser,        \* the Browser object of each run: which lifecycle calls were made
    deadline_fired, \* the timer of asyncio.wait_for has fired for the call
    response,       \* the TaskResponse each execute_task call returned
    cancel_resp,    \* what the latest cancel_browser_task call returned
    ncancels,       \* number of cancel_browser_task calls so far
    signals,        \* SIGTERMs sent to the browser process of each task
    storage_state_file,   \* /storage/auth/<identity>/storage_state.json
    session_storage_file, \* /storage/auth/<identity>/session_storage.json
    storage_state,  \* the storage_state argument each Browser was created with
    init_script,    \* the script each run installed with _cdp_add_init_script
    page,           \* export_session_storage's local page, of each run
    log,            \* what each run logged about its session state
    download_dir,   \* the files of the task's download directory
    tmp_download_dirs,  \* /tmp/browser_use_agent_*/browseruse_agent_data
    results         \* execute_task's local result: the dict run_agent_task returned

(* The task lifecycle, the session state, and the downloads. *)
task_vars == <<clock, active_tasks, browser_task, req, start_time, pc, raised,
               history, browser, deadline_fired, response, cancel_resp, ncancels,
               signals>>
session_vars == <<storage_state_file, session_storage_file, storage_state,
                  init_script, page, log>>
download_vars == <<download_dir, tmp_download_dirs>>

vars == <<clock, active_tasks, browser_task, req, start_time, pc, raised, history,
          browser, deadline_fired, response, cancel_resp, ncancels, signals,
          storage_state_file, session_storage_file, storage_state, init_script,
          page, log, download_dir, tmp_download_dirs, results>>

----------------------------------------------------------------------------
(* Bounds of the model. *)
MaxExecs == 2       \* execute_task calls in one behaviour
MaxClock == 3       \* the clock stops here
MaxCancels == 2     \* cancel_browser_task calls in one behaviour

Execs == 1..MaxExecs

(* Python's None, in string-valued places. *)
None == "None"

(* request.task_id as sent by the caller: an id, or none. *)
CallerIds == {"a"}
(* f"browser_{uuid.uuid4().hex[:12]}": a fresh id for each call. *)
UuidNames == <<"browser_u1", "browser_u2", "browser_u3", "browser_u4">>
GeneratedId(e) == UuidNames[e]
(* Ids a cancel request may carry: registered ones and one nobody registers. *)
CancelIds == CallerIds \cup {GeneratedId(e) : e \in Execs} \cup {"unknown"}

(* request.timeout, in abstract seconds (the field is an int >= 30). *)
Timeouts == {1, 2}

Providers == {"openai", "gemini"}

(* request.customer_id, an Optional[int]: the set holding the id, empty for  *)
(* None.                                                                     *)
NoCustomer == {}
CustomerIds == {NoCustomer, {0}, {1}}

(* The requests of the task lifecycle leave calculate_cost, debug_mode and   *)
(* customer_id at their defaults.                                            *)
Requests ==
    [task_id : CallerIds \cup {None}, timeout : Timeouts, session_enabled : BOOLEAN,
     llm_provider : Providers, calculate_cost : {TRUE}, debug_mode : {FALSE},
     customer_id : {NoCustomer}]

(* Exceptions a collaborator (LLM factory, Browser, Agent, file system) may  *)
(* raise: the class decides which except clause of execute_task catches it.  *)
Exceptions ==
    { [cls |-> "Exception", msg |-> <<"boom">>],
      [cls |-> "TimeoutError", msg |-> <<"cdp timed out">>] }
(* What the local, synchronous calls raise (constructors, mkdir, chdir, the  *)
(* result assembly): no timeout.                                             *)
LocalExceptions == {x \in Exceptions : x.cls = "Exception"}
NoExc == [cls |-> None, msg |-> <<>>]
CancelledError == [cls |-> "CancelledError", msg |-> <<>>]

(* history.judgement(): the judge's dict, or nothing. *)
NoJudgement == [given |-> FALSE, verdict |-> FALSE, reasoning |-> None]
Judgements ==
    { NoJudgement,
      [given |-> TRUE, verdict |-> TRUE, reasoning |-> None],
      [given |-> TRUE, verdict |-> FALSE, reasoning |-> "wrong page"] }

(* The queries result_processing makes on a history. *)
BasicQueries ==
    {"errors", "final_result", "is_done", "is_successful", "has_errors", "urls",
     "number_of_steps", "total_duration_seconds"}
Queries == BasicQueries \cup {"judgement", "usage", "extracted_content", "model_thoughts"}

(* What an AgentHistoryList answers: is_successful is True, False or None;   *)
(* cost is the set holding usage.total_cost, empty when there is none;       *)
(* usage_tokens says that usage has input_tokens and output_tokens; raises   *)
(* holds the queries that raise instead of answering.                        *)
Histories ==
    { [final_result |-> "done", is_done |-> TRUE, is_successful |-> "True",
       has_errors |-> FALSE, urls |-> <<"u1", "u2">>, steps |-> 2,
       errors |-> <<>>, cost |-> {1}, usage_tokens |-> TRUE, duration |-> 2,
       judgement |-> NoJudgement, extracted_content |-> <<"text">>,
       model_thoughts |-> <<"open", "read">>, raises |-> {}],
      [final_result |-> "partial", is_done |-> TRUE, is_successful |-> "False",
       has_errors |-> FALSE, urls |-> <<"u1">>, steps |-> 1,
       errors |-> <<>>, cost |-> {}, usage_tokens |-> FALSE, duration |-> 1,
       judgement |-> NoJudgement, extracted_content |-> <<>>,
       model_thoughts |-> <<"open">>, raises |-> {}],
      [final_result |-> None, is_done |-> FALSE, is_successful |-> "None",
       has_errors |-> TRUE, urls |-> <<"u1">>, steps |-> 1,
       errors |-> <<"boom", "429 rate_limit_exceeded">>, cost |-> {},
       usage_tokens |-> FALSE, duration |-> 1,
       judgement |-> NoJudgement, extracted_content |-> <<>>,
       model_thoughts |-> <<"open">>, raises |-> {}],
      [final_result |-> "done", is_done |-> TRUE, is_successful |-> "True",
       has_errors |-> FALSE, urls |-> <<"u1">>, steps |-> 1,
       errors |-> <<>>, cost |-> {}, usage_tokens |-> FALSE, duration |-> 1,
       judgement |-> NoJudgement, extracted_content |-> <<>>,
       model_thoughts |-> <<"open">>, raises |-> {"urls"}] }
NoHistory ==
    [final_result |-> None, is_done |-> FALSE, is_successful |-> "None",
     has_errors |-> FALSE, urls |-> <<>>, steps |-> 0, errors |-> <<>>, cost |-> {},
     usage_tokens |-> FALSE, duration |-> 0, judgement |-> NoJudgement,
     extracted_content |-> <<>>, model_thoughts |-> <<>>, raises |-> {}]

----------------------------------------------------------------------------
(* class BrowserTask *)

BrowserTask(task_id, agent) ==
    [task_id |-> task_id, agent |-> agent, browser_process |-> None,
     status |-> "running", partial_result |-> None, cancelled |-> FALSE]

(* BrowserTask.cancel: the fields it sets. *)
cancel(task) == [task EXCEPT !.cancelled = TRUE, !.status = "cancelled"]

(* BrowserTask.cancel: number of SIGTERMs it sends. *)
cancel_signals(task) == IF task.browser_process # None THEN 1 ELSE 0

(* BrowserTask.get_partial_result; agent.get_current_state() is the agent's. *)
get_partial_result(task) ==
    IF task.agent # None THEN "agent state" ELSE task.partial_result

----------------------------------------------------------------------------
(* utils.py *)

(* An error text of 240 characters, and the number of characters of each    *)
(* text that is joined into an error message.                                *)
LongError == "Rate limit reached for gpt-4o in organization org-1 (240 characters)"
Length(text) ==
    CASE text = LongError -> 240
      [] text = "429 rate_limit_exceeded" -> 23
      [] text = "Invalid JSON" -> 12
      [] text = "boom" -> 4
      [] text = "; " -> 2
      [] OTHER -> 1

(* text[:n], and the slice [:n] of a message given as the sequence of its    *)
(* parts: the parts that fit, then the cut part.                             *)
Prefix(text, n) ==
    IF n >= Length(text) THEN text ELSE text \o "[:" \o ToString(n) \o "]"
RECURSIVE Slice(_, _)
Slice(parts, n) ==
    IF parts = <<>> \/ n = 0 THEN <<>>
    ELSE IF Length(Head(parts)) >= n THEN <<Prefix(Head(parts), n)>>
    ELSE <<Head(parts)>> \o Slice(Tail(parts), n - Length(Head(parts)))

(* The error texts of Histories that hold one of the indicators. *)
is_rate_limit_error(err) == err \in {"429 rate_limit_exceeded", LongError}
is_empty_json_error(err) == err \in {"Invalid JSON"}

(* "; ".join(error_messages) *)
RECURSIVE JoinErrors(_)
JoinErrors(errs) ==
    IF Len(errs) = 0 THEN <<>>
    ELSE IF Len(errs) = 1 THEN errs
    ELSE <<Head(errs), "; ">> \o JoinErrors(Tail(errs))

(* format_openai_error_message, lines 55-88: the guidance of the error type, *)
(* the suggestions, and original_error[:200].                                *)
OriginalErrorSlice == 200
format_openai_error_message(original_error, error_type) ==
    LET base_msg ==
            IF error_type = "empty_json"
            THEN "OpenAI returned an empty or malformed response."
            ELSE IF error_type = "rate_limit"
            THEN "OpenAI API rate limit reached."
            ELSE "OpenAI error"
    IN  <<base_msg, "Suggestions:">> \o
        (IF original_error # <<>>
         THEN <<"Original error: ">> \o Slice(original_error, OriginalErrorSlice)
         ELSE <<>>)

----------------------------------------------------------------------------
(* Session state: agent_setup.setup_browser_profile, create_browser,         *)
(* restore_session_storage, and agent_runner.export_session_storage.         *)

(* window.location.origin of a page, and the items of its sessionStorage in  *)
(* the order of sessionStorage.key(i): pairs <<key, value>>, keys distinct.  *)
Origins == {"https://a.example", "https://b.example"}
Storages == { <<>>, << <<"a", "1">> >>, << <<"a", "1">>, <<"b", "2">> >> }
Pages == [origin : Origins, sessionStorage : Storages]
NoPage == [origin |-> None, sessionStorage |-> <<>>]
FreshPage(origin) == [origin |-> origin, sessionStorage |-> <<>>]

(* A file of the identity's directory: absent, or there with its text, a     *)
(* sequence of tokens.                                                       *)
NoFile == [exists |-> FALSE, text |-> <<>>]
File(text) == [exists |-> TRUE, text |-> text]

(* The members of a JSON object, written one after the other. *)
RECURSIVE Members(_)
Members(items) ==
    IF items = <<>> THEN <<>>
    ELSE <<Head(items)[1], Head(items)[2]>> \o Members(Tail(items))

(* json.dumps(data), lines 160 of agent_setup.py: the object as text. *)
json_dumps(data) == <<"{">> \o Members(data) \o <<"}">>

(* export_session_storage, lines 28-38: what page.evaluate returns,          *)
(* JSON.stringify({origin: ..., data: ...}).                                 *)
JSON_stringify(origin, data) ==
    <<"{", "origin", origin, "data">> \o json_dumps(data) \o <<"}">>

(* json.loads / json.load: the object a text denotes, if it denotes one. *)
IsSnapshotText(text) ==
    /\ Len(text) >= 7
    /\ (Len(text) - 7) % 2 = 0
    /\ text[1] = "{" /\ text[2] = "origin" /\ text[4] = "data" /\ text[5] = "{"
    /\ text[Len(text) - 1] = "}" /\ text[Len(text)] = "}"
json_loads(text) ==
    IF IsSnapshotText(text)
    THEN [ok |-> TRUE, origin |-> text[3],
          data |-> [i \in 1..((Len(text) - 7) \div 2) |->
                        <<text[4 + 2 * i], text[5 + 2 * i]>>]]
    ELSE [ok |-> FALSE, origin |-> None, data |-> <<>>]

(* json.dump(session_storage_data, f, indent=2), lines 46-49 of              *)
(* agent_runner.py: the parsed object written back; indent adds white space. *)
json_dump(obj) == JSON_stringify(obj.origin, obj.data)

(* What open(output_path, 'w') leaves when the write fails part way. *)
TruncatedFile == File(<<"{">>)

(* The init script of restore_session_storage, lines 156-167: the origin it  *)
(* is for and the object literal it holds; installed once                    *)
(* _cdp_add_init_script has returned.                                        *)
NoScript == [installed |-> FALSE, origin |-> None, storage |-> <<>>]

(* The script prepared whatever the data, empty or not. *)
PreparedScript_EmptyData(file) ==
    LET session_data == json_loads(file.text) IN
    IF file.exists /\ session_data.ok
    THEN [installed |-> FALSE, origin |-> session_data.origin,
          storage |-> json_dumps(session_data.data)]
    ELSE NoScript

(* The script counted as installed as soon as it is prepared. *)
PreparedScript_Installed(file) ==
    LET session_data == json_loads(file.text) IN
    IF file.exists /\ session_data.ok /\ session_data.data # <<>>
    THEN [installed |-> TRUE, origin |-> session_data.origin,
          storage |-> json_dumps(session_data.data)]
    ELSE NoScript

(* restore_session_storage, lines 133-167: the script it prepares from the   *)
(* file, or none: no file, a text that does not parse, or no data.           *)
PreparedScript(file) ==
    LET session_data == json_loads(file.text) IN
    IF file.exists /\ session_data.ok /\ session_data.data # <<>>
    THEN [installed |-> FALSE, origin |-> session_data.origin,
          storage |-> json_dumps(session_data.data)]
    ELSE NoScript

(* restore_session_storage: what it logs when it prepares no script. *)
RestoreLog(file) ==
    IF ~file.exists THEN "No sessionStorage file found"
    ELSE IF ~json_loads(file.text).ok THEN "Failed to restore sessionStorage"
    ELSE "SessionStorage file exists but contains no data"

(* The script's Object.entries(storage): the items of the object literal. *)
ObjectEntries(storage) ==
    [i \in 1..((Len(storage) - 2) \div 2) |-> <<storage[2 * i], storage[2 * i + 1]>>]

(* window.sessionStorage.setItem(key, value). *)
setItem(items, key, value) ==
    IF \E i \in 1..Len(items) : items[i][1] = key
    THEN [i \in 1..Len(items) |->
             IF items[i][1] = key THEN <<key, value>> ELSE items[i]]
    ELSE Append(items, <<key, value>>)

RECURSIVE setItems(_, _)
setItems(items, entries) ==
    IF entries = <<>> THEN items
    ELSE setItems(setItem(items, Head(entries)[1], Head(entries)[2]), Tail(entries))

(* The script without its test of the origin. *)
RunInitScript_NoGate(script, pg) ==
    IF script.installed
    THEN [pg EXCEPT !.sessionStorage = setItems(@, ObjectEntries(script.storage))]
    ELSE pg

(* The script, lines 157-166, run by the browser on a new document pg. *)
RunInitScript(script, pg) ==
    IF script.installed /\ pg.origin = script.origin
    THEN [pg EXCEPT !.sessionStorage = setItems(@, ObjectEntries(script.storage))]
    ELSE pg

(* The content of a sessionStorage: key -> value. *)
Items(items) ==
    [k \in {items[i][1] : i \in 1..Len(items)} |->
        items[CHOOSE i \in 1..Len(items) : items[i][1] = k][2]]

(* The storage_state file an export of run e writes. *)
StorageStateOf(e) == File(<<"cookies of run", ToString(e)>>)

(* The files an identity has at start: none, or those of an earlier task     *)
(* that ended on a page with stored items.                                   *)
EarlierPage == [origin |-> "https://a.example", sessionStorage |-> << <<"a", "1">> >>]
InitialFiles ==
    { [storage_state |-> NoFile, session_storage |-> NoFile],
      [storage_state |-> File(<<"cookies of run", "0">>),
       session_storage |->
          File(JSON_stringify(EarlierPage.origin, EarlierPage.sessionStorage))] }

----------------------------------------------------------------------------
(* result_processing.handle_downloads                                        *)

(* File names as stem and suffix; file contents by name. *)
ReportPdf == <<"report", ".pdf">>
NotesTxt == <<"notes", ".txt">>

(* Lines 42-45: f"{stem}_{timestamp}{suffix}", the timestamp being           *)
(* datetime.now() to the second.                                             *)
Timestamped(name, now) ==
    SubSeq(name, 1, Len(name) - 1) \o <<"_", ToString(now), name[Len(name)]>>

(* The task's download directory below /home/browseruser/Downloads, and      *)
(* line 54: dest_file.relative_to(Path("/home/browseruser/Downloads")).      *)
TaskDir == "default/task_1"
RelativePath(name) == [dir |-> TaskDir, name |-> name]

(* The entries of the scratch directories in the order glob and iterdir give *)
(* them, each with the index of its directory.                               *)
RECURSIVE ScratchEntries(_, _)
ScratchEntries(dirs, d) ==
    IF d > Len(dirs) THEN <<>>
    ELSE [i \in 1..Len(dirs[d].entries) |-> dirs[d].entries[i]]
            \o ScratchEntries(dirs, d + 1)

(* The loop left at the first move that fails. *)
RECURSIVE MoveFiles_StopsAtFailure(_, _, _)
MoveFiles_StopsAtFailure(entries, now, acc) ==
    IF entries = <<>> THEN acc
    ELSE LET file == Head(entries)
             taken == \E f \in acc.download_dir : f.name = file.name
             dest_file == IF taken THEN Timestamped(file.name, now) ELSE file.name
         IN  IF ~file.is_file
             THEN MoveFiles_StopsAtFailure(Tail(entries), now, acc)
             ELSE IF ~file.movable
             THEN [acc EXCEPT !.attempted = Append(@, file.content)]
             ELSE MoveFiles_StopsAtFailure(Tail(entries), now,
                    [download_dir |->
                        {f \in acc.download_dir : f.name # dest_file}
                            \cup {[name |-> dest_file, content |-> file.content]},
                     downloaded_files |->
                        Append(acc.downloaded_files, RelativePath(dest_file)),
                     attempted |-> Append(acc.attempted, file.content),
                     moved |-> Append(acc.moved, file.content)])

(* Lines 34-57 on the entries to go, with the files of the target directory, *)
(* the list returned so far, and the moves attempted and done so far.  A     *)
(* move onto an existing path replaces the file there.                       *)
RECURSIVE MoveFiles(_, _, _)
MoveFiles(entries, now, acc) ==
    IF entries = <<>> THEN acc
    ELSE LET file == Head(entries)
             taken == \E f \in acc.download_dir : f.name = file.name
             dest_file == IF taken THEN Timestamped(file.name, now) ELSE file.name
         IN  IF ~file.is_file
             THEN MoveFiles(Tail(entries), now, acc)
             ELSE IF ~file.movable
             THEN MoveFiles(Tail(entries), now,
                            [acc EXCEPT !.attempted = Append(@, file.content)])
             ELSE MoveFiles(Tail(entries), now,
                    [download_dir |->
                        {f \in acc.download_dir : f.name # dest_file}
                            \cup {[name |-> dest_file, content |-> file.content]},
                     downloaded_files |->
                        Append(acc.downloaded_files, RelativePath(dest_file)),
                     attempted |-> Append(acc.attempted, file.content),
                     moved |-> Append(acc.moved, file.content)])

(* A scratch directory after the loop over it: what was not moved. *)
Unmoved(dir) ==
    [dir EXCEPT !.entries = SelectSeq(@, LAMBDA f : ~(f.is_file /\ f.movable))]

(* Lines 59-64: shutil.rmtree removes the directory, or fails and is logged. *)
RECURSIVE RemoveTrees(_)
RemoveTrees(dirs) ==
    IF dirs = <<>> THEN <<>>
    ELSE (IF Head(dirs).removable THEN <<>> ELSE <<Unmoved(Head(dirs))>>)
            \o RemoveTrees(Tail(dirs))

(* handle_downloads(download_dir), lines 14-70, at time now: the target      *)
(* directory and the scratch directories it leaves, and the list it returns. *)
handle_downloads(files, dirs, now) ==
    LET acc == MoveFiles(ScratchEntries(dirs, 1), now,
                         [download_dir |-> files, downloaded_files |-> <<>>,
                          attempted |-> <<>>, moved |-> <<>>])
    IN  [download_dir |-> acc.download_dir,
         tmp_download_dirs |-> RemoveTrees(dirs),
         downloaded_files |-> acc.downloaded_files,
         attempted |-> acc.attempted,
         moved |-> acc.moved]

----------------------------------------------------------------------------
(* result_processing.py, as run_agent_task uses it after the browser stopped *)

(* What a history query raises when it raises. *)
QueryError == [cls |-> "Exception", msg |-> <<"boom">>]

(* Line 75: errors = [str(e) for e in history.errors() if e]. *)
str_errors(h) == SelectSeq(h.errors, LAMBDA e : e # None)

(* Lines 81-83 decided for every provider. *)
classify_Ungated(h, request) == str_errors(h) # <<>>

(* extract_basic_results, lines 80-83: the errors are classified for the     *)
(* provider openai only.                                                     *)
classify(h, request) == str_errors(h) # <<>> /\ request.llm_provider = "openai"

(* format_judge_verdict, lines 227-249. *)
format_judge_verdict(judgement_dict) ==
    <<"Judge Verdict: ", IF judgement_dict.verdict THEN "PASS" ELSE "FAIL">>
        \o (IF judgement_dict.reasoning # None
            THEN <<"Reasoning: ", judgement_dict.reasoning>> ELSE <<>>)

(* extract_basic_results, lines 98-115: the verdict, none when the history   *)
(* has none or the query raises (except Exception logs it).                  *)
NoVerdict == <<>>
judge_verdict(h) ==
    IF "judgement" \in h.raises \/ ~h.judgement.given
    THEN NoVerdict
    ELSE format_judge_verdict(h.judgement)

(* extract_basic_results with the judgement queried outside its try block. *)
extract_basic_results_raises_NoTry(h) ==
    h.raises \cap (BasicQueries \cup {"judgement"}) # {}

(* extract_basic_results, lines 75-96: the queries made outside any try      *)
(* block; if one raises, extract_basic_results raises.                       *)
extract_basic_results_raises(h) == h.raises \cap BasicQueries # {}

(* extract_basic_results, lines 73-121: the dict it returns.  gif_path is    *)
(* left out: the requests here do not ask for a GIF.                         *)
BasicKeys ==
    {"final_result", "is_done", "is_successful", "has_errors", "urls", "steps",
     "duration", "errors", "openai_empty_json", "openai_rate_limit", "judge_verdict"}
extract_basic_results(h, request) ==
    [final_result |-> h.final_result, is_done |-> h.is_done,
     is_successful |-> h.is_successful, has_errors |-> h.has_errors,
     urls |-> h.urls, steps |-> h.steps, duration |-> h.duration,
     errors |-> str_errors(h),
     openai_empty_json |->
        classify(h, request)
            /\ \E i \in 1..Len(str_errors(h)) : is_empty_json_error(str_errors(h)[i]),
     openai_rate_limit |->
        classify(h, request)
            /\ \E i \in 1..Len(str_errors(h)) : is_rate_limit_error(str_errors(h)[i]),
     judge_verdict |-> judge_verdict(h)]

(* extract_cost_data, lines 124-166: the keys it sets and their values.  The *)
(* fallback and the except clause both query number_of_steps.                *)
cost_from_usage(h, request) ==
    request.calculate_cost /\ "usage" \notin h.raises /\ h.cost # {}
extract_cost_data_raises(h, request) ==
    /\ request.calculate_cost
    /\ ~cost_from_usage(h, request)
    /\ "number_of_steps" \in h.raises
(* The cost data with a missing cost reported as zero. *)
extract_cost_data_ZeroFallback(h, request) ==
    IF cost_from_usage(h, request)
    THEN [keys |-> {"cost", "cost_currency"}
                      \cup (IF h.usage_tokens THEN {"llm_calls"} ELSE {}),
          cost |-> h.cost, cost_currency |-> "USD",
          llm_calls |-> IF h.usage_tokens THEN 1 ELSE 0]
    ELSE [keys |-> {"cost", "llm_calls"}, cost |-> {0}, cost_currency |-> "USD",
          llm_calls |-> IF request.calculate_cost THEN h.steps ELSE 0]

extract_cost_data(h, request) ==
    IF cost_from_usage(h, request)
    THEN [keys |-> {"cost", "cost_currency"}
                      \cup (IF h.usage_tokens THEN {"llm_calls"} ELSE {}),
          cost |-> h.cost, cost_currency |-> "USD",
          llm_calls |-> IF h.usage_tokens THEN 1 ELSE 0]
    ELSE [keys |-> {"cost", "llm_calls"}, cost |-> {}, cost_currency |-> "USD",
          llm_calls |-> IF request.calculate_cost THEN h.steps ELSE 0]

(* extract_debug_data, lines 169-215.  debug_data is None without            *)
(* debug_mode; with it, extracted_content and model_thoughts are queried     *)
(* inside try blocks and the performance counters outside.                   *)
NoPerformance ==
    [total_duration |-> 0, steps |-> 0, urls_visited |-> 0, has_errors |-> FALSE]
DebugNone ==
    [is_none |-> TRUE, extracted_content |-> <<>>, model_thoughts |-> <<>>,
     performance |-> NoPerformance]
PerformanceQueries ==
    {"total_duration_seconds", "number_of_steps", "urls", "has_errors"}
extract_debug_data_raises(h, request) ==
    request.debug_mode /\ h.raises \cap PerformanceQueries # {}
(* The debug data with the step counter left at zero. *)
extract_debug_data_NoSteps(h, request) ==
    IF ~request.debug_mode
    THEN [debug_data |-> DebugNone]
    ELSE [debug_data |->
            [is_none |-> FALSE, extracted_content |-> h.extracted_content,
             model_thoughts |->
                [i \in 1..Len(h.model_thoughts) |->
                    [step |-> i, thought |-> h.model_thoughts[i]]],
             performance |->
                [total_duration |-> h.duration, steps |-> 0,
                 urls_visited |-> Len(h.urls), has_errors |-> h.has_errors]]]

extract_debug_data(h, request) ==
    IF ~request.debug_mode
    THEN [debug_data |-> DebugNone]
    ELSE [debug_data |->
            [is_none |-> FALSE,
             extracted_content |->
                IF "extracted_content" \in h.raises THEN <<>>
                ELSE h.extracted_content,
             model_thoughts |->
                IF "model_thoughts" \in h.raises THEN <<>>
                ELSE [i \in 1..Len(h.model_thoughts) |->
                         [step |-> i, thought |-> h.model_thoughts[i]]],
             performance |->
                [total_duration |-> h.duration, steps |-> h.steps,
                 urls_visited |-> Len(h.urls), has_errors |-> h.has_errors]]]

(* assemble_final_result, lines 218-224: the three dicts merged, and the two *)
(* keys added.  keys holds the keys of the dict; a field whose key is not in *)
(* the dict holds the default execute_task reads it with.                    *)
assemble_final_result(basic_result, cost_data, debug_data, downloaded_files, conversation_path) ==
    [keys |-> BasicKeys \cup cost_data.keys \cup {"debug_data"}
                \cup {"downloaded_files", "conversation_path"},
     final_result |-> basic_result.final_result,
     is_done |-> basic_result.is_done,
     is_successful |-> basic_result.is_successful,
     has_errors |-> basic_result.has_errors,
     urls |-> basic_result.urls,
     steps |-> basic_result.steps,
     duration |-> basic_result.duration,
     errors |-> basic_result.errors,
     openai_empty_json |-> basic_result.openai_empty_json,
     openai_rate_limit |-> basic_result.openai_rate_limit,
     judge_verdict |-> basic_result.judge_verdict,
     cost |-> cost_data.cost,
     cost_currency |-> cost_data.cost_currency,
     llm_calls |-> cost_data.llm_calls,
     debug_data |-> debug_data.debug_data,
     downloaded_files |-> downloaded_files,
     conversation_path |-> conversation_path]

(* No dict: run_agent_task has not returned one. *)
NoResult ==
    [keys |-> {}, final_result |-> None, is_done |-> FALSE, is_successful |-> None,
     has_errors |-> FALSE, urls |-> <<>>, steps |-> 0, duration |-> 0,
     errors |-> <<>>, openai_empty_json |-> FALSE, openai_rate_limit |-> FALSE,
     judge_verdict |-> NoVerdict, cost |-> {}, cost_currency |-> "USD",
     llm_calls |-> 0, debug_data |-> DebugNone, downloaded_files |-> <<>>,
     conversation_path |-> None]

(* run_agent_task, lines 111-123: what the result processing raises, if a    *)
(* query it makes outside a try block raises.                                *)
result_processing_raises(h, request) ==
    \/ extract_basic_results_raises(h)
    \/ extract_cost_data_raises(h, request)
    \/ extract_debug_data_raises(h, request)

----------------------------------------------------------------------------
(* models.TaskResponse: the fields execute_task does not pass keep their     *)
(* defaults.  partial_result is no field of the model, so a value passed     *)
(* under that name is not part of the response.                              *)

NoError == <<>>

TaskResponseDefaults ==
    [task_id |-> None, success |-> FALSE, result |-> None, final_url |-> None,
     urls_visited |-> <<>>, steps_taken |-> 0, execution_time |-> 0,
     error |-> NoError, judge_verdict |-> NoVerdict, cost |-> {},
     cost_currency |-> "USD", llm_calls |-> 0, debug_data |-> DebugNone,
     conversation_path |-> None, downloaded_files |-> <<>>]

(* execute_task, lines 144-152: the task was cancelled during execution. *)
CancelledResponse(task_id) ==
    [TaskResponseDefaults EXCEPT !.task_id = task_id, !.success = FALSE,
                                 !.error = <<"Task cancelled">>]

(* The timeout response built the way the cancelled one is: without the     *)
(* elapsed time.                                                             *)
TimeoutResponse_NoElapsed(task_id, timeout, execution_time) ==
    [TaskResponseDefaults EXCEPT !.task_id = task_id, !.success = FALSE,
        !.error = <<"Task timed out after ", ToString(timeout), " seconds">>]

(* execute_task, lines 234-242: asyncio.TimeoutError. *)
TimeoutResponse(task_id, timeout, execution_time) ==
    [TaskResponseDefaults EXCEPT !.task_id = task_id, !.success = FALSE,
        !.error = <<"Task timed out after ", ToString(timeout), " seconds">>,
        !.execution_time = execution_time]

(* execute_task, lines 244-252: any other exception. *)
FailureResponse(task_id, exc, execution_time) ==
    [TaskResponseDefaults EXCEPT !.task_id = task_id, !.success = FALSE,
        !.error = exc.msg, !.execution_time = execution_time]

(* execute_task, lines 156-166. *)
DetermineSuccess(result) ==
    IF result.is_successful # None
    THEN result.is_successful = "True"
    ELSE result.is_done \/ (result.final_result # None /\ ~result.has_errors)

(* execute_task, lines 194-213. *)
ResponseError(result) ==
    IF result.errors = <<>> THEN NoError
    ELSE IF result.openai_rate_limit
    THEN format_openai_error_message(JoinErrors(result.errors), "rate_limit")
    ELSE IF result.openai_empty_json
    THEN format_openai_error_message(JoinErrors(result.errors), "empty_json")
    ELSE JoinErrors(result.errors)

(* execute_task, lines 215-232. *)
CompletedResponse(task_id, result, execution_time) ==
    [TaskResponseDefaults EXCEPT !.task_id = task_id,
        !.success = DetermineSuccess(result),
        !.result = result.final_result,
        !.final_url = IF result.urls # <<>> THEN result.urls[Len(result.urls)] ELSE None,
        !.urls_visited = result.urls,
        !.steps_taken = result.steps,
        !.execution_time = execution_time,
        !.error = ResponseError(result),
        !.judge_verdict = result.judge_verdict,
        !.cost = result.cost,
        !.cost_currency = result.cost_currency,
        !.llm_calls = result.llm_calls,
        !.debug_data = result.debug_data,
        !.conversation_path = result.conversation_path,
        !.downloaded_files = result.downloaded_files]

----------------------------------------------------------------------------
(* The state after the module is imported: no call yet. *)

NoRequest ==
    [task_id |-> None, timeout |-> 0, session_enabled |-> FALSE, llm_provider |-> None,
     calculate_cost |-> FALSE, debug_mode |-> FALSE, customer_id |-> NoCustomer]

NoCancelResponse == [success |-> FALSE, task_id |-> None, text |-> None,
                     partial_result |-> None]

Init ==
    /\ clock = 0
    /\ active_tasks = <<>>
    /\ browser_task = <<>>
    /\ req = [e \in Execs |-> NoRequest]
    /\ start_time = [e \in Execs |-> 0]
    /\ pc = [e \in Execs |-> "idle"]
    /\ raised = [e \in Execs |-> NoExc]
    /\ history = [e \in Execs |-> NoHistory]
    /\ browser = [e \in Execs |-> "none"]
    /\ deadline_fired = [e \in Execs |-> FALSE]
    /\ response = <<>>
    /\ cancel_resp = NoCancelResponse
    /\ ncancels = 0
    /\ signals = [e \in Execs |-> 0]
    /\ \E f \in InitialFiles :
          /\ storage_state_file = f.storage_state
          /\ session_storage_file = f.session_storage
    /\ storage_state = [e \in Execs |-> None]
    /\ init_script = [e \in Execs |-> NoScript]
    /\ page = [e \in Execs |-> NoPage]
    /\ log = [e \in Execs |-> {}]
    /\ download_dir = {}
    /\ tmp_download_dirs = <<>>
    /\ results = [e \in Execs |-> NoResult]

(* The task id execute_task uses: request.task_id or a fresh one. *)
TaskId(e, request) ==
    IF request.task_id # None THEN request.task_id ELSE GeneratedId(e)

(* The suspension points of run_agent_task. *)
AwaitPcs == {"starting", "restoring", "running", "exporting_state",
             "exporting_session", "stopping"}

----------------------------------------------------------------------------
(* execute_task, lines 133-252: what follows the await of wait_for.  The     *)
(* coroutine run_agent_task is awaited inside execute_task's own task, so    *)
(* execute_task goes on in the step in which run_agent_task ends.            *)

(* What the await of wait_for raises: TimeoutError when the body ended       *)
(* cancelled by the timer, else what the body raised.                        *)
WaitForRaises(exc) ==
    IF exc.cls = "CancelledError"
    THEN [cls |-> "TimeoutError", msg |-> <<>>]
    ELSE exc

(* run_agent_task, lines 111-123: the dict it returns, given the list        *)
(* handle_downloads returned.  No conversation is saved.                     *)
RunResult(h, request, downloaded_files) ==
    assemble_final_result(extract_basic_results(h, request),
                          extract_cost_data(h, request),
                          extract_debug_data(h, request),
                          downloaded_files, None)

(* The response of the call that registered task with request at started_at, *)
(* whose body ends now, raising exc or (exc = NoExc) returning the dict res. *)
ExecuteResponse(task, request, started_at, now, exc, res) ==
    LET execution_time == now - started_at IN
    IF exc = NoExc
    THEN IF task.cancelled
         THEN CancelledResponse(task.task_id)
         ELSE CompletedResponse(task.task_id, res, execution_time)
    ELSE IF WaitForRaises(exc).cls = "TimeoutError"
    THEN TimeoutResponse(task.task_id, request.timeout, execution_time)
    ELSE FailureResponse(task.task_id, exc, execution_time)

(* run_agent_task of call e ends raising exc (no finally clause is open, or  *)
(* it is done), and execute_task returns its response.                       *)
BodyEnds(e, exc) ==
    /\ pc' = [pc EXCEPT ![e] = "returned"]
    /\ raised' = [raised EXCEPT ![e] = exc]
    /\ response' = (e :> ExecuteResponse(browser_task[e], req[e], start_time[e],
                                         clock, exc, NoResult)) @@ response

(* run_agent_task of call e returns the dict res, line 123, and execute_task *)
(* returns its response.                                                     *)
BodyReturns(e, res) ==
    /\ pc' = [pc EXCEPT ![e] = "returned"]
    /\ raised' = [raised EXCEPT ![e] = NoExc]
    /\ results' = [results EXCEPT ![e] = res]
    /\ response' = (e :> ExecuteResponse(browser_task[e], req[e], start_time[e],
                                         clock, NoExc, res)) @@ response

(* run_agent_task is suspended at the await named by where. *)
BodyAwaits(e, where) ==
    /\ pc' = [pc EXCEPT ![e] = where]
    /\ raised' = raised
    /\ response' = response

(* `if request.customer_id`: None and 0 are falsy. *)
Truthy(customer_id) == customer_id # NoCustomer /\ customer_id # {0}

(* f"customer_{request.customer_id}" if request.customer_id else "default",  *)
(* lines 58-66 and 83 of agent_setup.py.                                     *)
customer_dir(request) ==
    IF Truthy(request.customer_id)
    THEN [bucket |-> "customer", id |-> request.customer_id]
    ELSE [bucket |-> "default", id |-> NoCustomer]

(* setup_browser_profile, lines 76-92 of agent_setup.py: the two paths below *)
(* /storage/auth, or none without session_enabled.                           *)
NoPath == [dir |-> [bucket |-> None, id |-> NoCustomer], name |-> None]
setup_browser_profile(request) ==
    IF ~request.session_enabled
    THEN [storage_state_path |-> NoPath, session_storage_path |-> NoPath]
    ELSE [storage_state_path |->
              [dir |-> customer_dir(request), name |-> "storage_state.json"],
          session_storage_path |->
              [dir |-> customer_dir(request), name |-> "session_storage.json"]]

(* setup_directories, lines 55-67 of agent_setup.py: the download directory  *)
(* of call e below /home/browseruser/Downloads, a fresh task_<uuid> in the   *)
(* customer's directory.                                                     *)
setup_directories(e, request) ==
    [dir |-> customer_dir(request), task_dir_name |-> e]

(* os.chdir, line 70 of agent_setup.py: the working directory of the         *)
(* process, one for all tasks, is the download directory of the call whose   *)
(* set-up ran last, where no set-up call raises.  Calls are numbered in the  *)
(* order they arrive and their set-up runs up to browser.start() without     *)
(* suspending, so that call is the last one that has left "idle".  Before    *)
(* the first call it is the directory the process was started in.            *)
StartDir == [dir |-> "/", task_dir_name |-> 0]
cwd ==
    LET made == {e \in Execs : pc[e] # "idle"} IN
    IF made = {}
    THEN StartDir
    ELSE LET last == CHOOSE e \in made : \A d \in made : d <= e IN
         setup_directories(last, req[last])

(* The storage_state file given to the Browser whenever it exists. *)
create_browser_storage_state_Always(request) ==
    IF storage_state_file.exists
    THEN "storage_state.json"
    ELSE None

(* create_browser, lines 99-106 of agent_setup.py: the storage_state the     *)
(* Browser is created with.                                                  *)
create_browser_storage_state(request) ==
    IF request.session_enabled /\ storage_state_file.exists
    THEN "storage_state.json"
    ELSE None

(* POST /execute, lines 100-142, and run_agent_task, lines 60-73:            *)
(* start_time, the registration, then inside wait_for the set-up calls       *)
(* (setup_llms, setup_directories, setup_browser_profile, create_browser),   *)
(* any of which may raise, and the call of browser.start().  Calls are       *)
(* numbered in the order they arrive.                                        *)
execute_task(e, request) ==
    /\ pc[e] = "idle"
    /\ \A d \in Execs : d < e => pc[d] # "idle"
    /\ LET task == BrowserTask(TaskId(e, request), None) IN
       /\ browser_task' = (e :> task) @@ browser_task
       /\ active_tasks' = (task.task_id :> e) @@ active_tasks
       /\ req' = [req EXCEPT ![e] = request]
       /\ start_time' = [start_time EXCEPT ![e] = clock]
       /\ \/ /\ pc' = [pc EXCEPT ![e] = "starting"]
             /\ browser' = [browser EXCEPT ![e] = "start_called"]
             /\ storage_state' = [storage_state EXCEPT
                                     ![e] = create_browser_storage_state(request)]
             /\ UNCHANGED <<raised, response>>
          \/ \E exc \in LocalExceptions :
                /\ pc' = [pc EXCEPT ![e] = "returned"]
                /\ raised' = [raised EXCEPT ![e] = exc]
                /\ response' = (e :> ExecuteResponse(task, request, clock, clock,
                                                     exc, NoResult)) @@ response
                /\ UNCHANGED <<browser, storage_state>>
    /\ UNCHANGED <<clock, history, deadline_fired, cancel_resp, ncancels, signals>>
    /\ UNCHANGED <<storage_state_file, session_storage_file, init_script, page, log>>
    /\ UNCHANGED <<download_vars, results>>

(* run_agent_task, lines 80-85: create_agent, outside the try block, then    *)
(* agent.run is called inside it.  The Agent constructor may raise.          *)
create_agent_and_run(e) ==
    \/ BodyAwaits(e, "running")
    \/ \E exc \in LocalExceptions : BodyEnds(e, exc)

(* run_agent_task, lines 73-78: browser.start() returns or raises.  With a   *)
(* session_storage_path, restore_session_storage runs: it awaits             *)
(* _cdp_add_init_script when the snapshot file exists and holds data, and    *)
(* returns at once otherwise.                                                *)
browser_start_done(e) ==
    /\ pc[e] = "starting"
    /\ \/ /\ browser' = [browser EXCEPT ![e] = "started"]
          /\ IF req[e].session_enabled
             THEN LET script == PreparedScript(session_storage_file) IN
                  IF script # NoScript
                  THEN /\ BodyAwaits(e, "restoring")
                       /\ init_script' = [init_script EXCEPT ![e] = script]
                       /\ log' = log
                  ELSE /\ create_agent_and_run(e)
                       /\ init_script' = init_script
                       /\ log' = [log EXCEPT
                                     ![e] = @ \cup {RestoreLog(session_storage_file)}]
             ELSE /\ create_agent_and_run(e)
                  /\ UNCHANGED <<init_script, log>>
       \/ /\ UNCHANGED <<browser, init_script, log>>
          /\ \E exc \in Exceptions : BodyEnds(e, exc)
    /\ UNCHANGED <<clock, active_tasks, browser_task, req, start_time, history,
                   deadline_fired, cancel_resp, ncancels, signals>>
    /\ UNCHANGED <<storage_state_file, session_storage_file, storage_state, page>>
    /\ UNCHANGED <<download_vars, results>>

(* restore_session_storage, lines 169-174: _cdp_add_init_script returns or   *)
(* raises; except Exception logs a warning, and either way the run goes on.  *)
restore_session_storage_done(e) ==
    /\ pc[e] = "restoring"
    /\ \/ /\ init_script' = [init_script EXCEPT ![e].installed = TRUE]
          /\ log' = [log EXCEPT ![e] = @ \cup {"Prepared sessionStorage restoration"}]
       \/ /\ init_script' = [init_script EXCEPT ![e] = NoScript]
          /\ log' = [log EXCEPT ![e] = @ \cup {"Failed to restore sessionStorage"}]
    /\ create_agent_and_run(e)
    /\ UNCHANGED <<clock, active_tasks, browser_task, req, start_time, history,
                   browser, deadline_fired, cancel_resp, ncancels, signals>>
    /\ UNCHANGED <<storage_state_file, session_storage_file, storage_state, page>>
    /\ UNCHANGED <<download_vars, results>>

(* run_agent_task, lines 100-106: the finally clause calls browser.stop()    *)
(* with exc in flight (NoExc on the normal path).                            *)
EnterFinally(e, exc) ==
    /\ pc' = [pc EXCEPT ![e] = "stopping"]
    /\ raised' = [raised EXCEPT ![e] = exc]
    /\ browser' = [browser EXCEPT ![e] = "stop_called"]
    /\ response' = response

(* An export called once the browser was stopped. *)
CallExport_AfterStop(e, where) ==
    /\ BodyAwaits(e, where)
    /\ browser' = [browser EXCEPT ![e] = "stop_called"]

(* run_agent_task, lines 91 and 96: an export is called on the run's         *)
(* browser, inside the try block, and awaited.                               *)
CallExport(e, where) ==
    /\ BodyAwaits(e, where)
    /\ browser' = browser

(* An export failure that is logged and raised again. *)
ExportFailed_Raises(e, exc) ==
    /\ EnterFinally(e, exc)
    /\ log' = [log EXCEPT ![e] = @ \cup {"Failed to save session state"}]

(* run_agent_task, lines 98-99: except Exception logs the failure of the     *)
(* export, and the run goes on to the finally clause.                        *)
ExportFailed(e, exc) ==
    /\ EnterFinally(e, NoExc)
    /\ log' = [log EXCEPT ![e] = @ \cup {"Failed to save session state"}]

(* run_agent_task, lines 85-99: agent.run returns a history or raises.  With *)
(* a storage_state_path the export of storage_state is called next (mkdir    *)
(* may raise, which the inner except logs); without one, or after a raise,   *)
(* the finally clause runs.                                                  *)
agent_run_done(e) ==
    /\ pc[e] = "running"
    /\ \/ \E h \in Histories :
            /\ history' = [history EXCEPT ![e] = h]
            /\ \/ /\ req[e].session_enabled
                  /\ CallExport(e, "exporting_state")
                  /\ log' = log
               \/ /\ req[e].session_enabled
                  /\ \E exc \in LocalExceptions : ExportFailed(e, exc)
               \/ /\ ~req[e].session_enabled
                  /\ EnterFinally(e, NoExc)
                  /\ log' = log
       \/ /\ \E exc \in Exceptions : EnterFinally(e, exc)
          /\ UNCHANGED <<history, log>>
    /\ UNCHANGED <<clock, active_tasks, browser_task, req, start_time,
                   deadline_fired, cancel_resp, ncancels, signals>>
    /\ UNCHANGED <<storage_state_file, session_storage_file, storage_state,
                   init_script, page>>
    /\ UNCHANGED <<download_vars, results>>

(* run_agent_task, lines 91-99: browser.export_storage_state returns, having *)
(* written the file, and export_session_storage is called; or it raises,     *)
(* which is logged.                                                          *)
export_storage_state_done(e) ==
    /\ pc[e] = "exporting_state"
    /\ \/ /\ storage_state_file' = StorageStateOf(e)
          /\ log' = [log EXCEPT ![e] = @ \cup {"Saved storage_state"}]
          /\ CallExport(e, "exporting_session")
       \/ /\ storage_state_file' = storage_state_file
          /\ \E exc \in Exceptions : ExportFailed(e, exc)
    /\ UNCHANGED <<clock, active_tasks, browser_task, req, start_time, history,
                   deadline_fired, cancel_resp, ncancels, signals>>
    /\ UNCHANGED <<session_storage_file, storage_state, init_script, page>>
    /\ UNCHANGED <<download_vars, results>>

(* export_session_storage, lines 17-55, when get_current_page answers pg:    *)
(* there is no page; or the page is evaluated, the result parsed and written *)
(* to the file; or one of the calls raises, which except Exception logs, the *)
(* write leaving a truncated file.  Line 97 of run_agent_task logs the save  *)
(* either way, and the finally clause runs.                                  *)
export_session_storage_done(e, pg) ==
    /\ pc[e] = "exporting_session"
    /\ page' = [page EXCEPT ![e] = pg]
    /\ IF pg = NoPage
       THEN /\ session_storage_file' = session_storage_file
            /\ log' = [log EXCEPT ![e] = @ \cup {"No active page",
                                                  "Saved sessionStorage"}]
       ELSE LET session_storage_data ==
                    json_loads(JSON_stringify(pg.origin, pg.sessionStorage))
            IN  \/ /\ session_storage_data.ok
                   /\ session_storage_file' = File(json_dump(session_storage_data))
                   /\ log' = [log EXCEPT ![e] = @ \cup {"Exported sessionStorage",
                                                         "Saved sessionStorage"}]
                \/ /\ session_storage_file' \in {session_storage_file, TruncatedFile}
                   /\ log' = [log EXCEPT
                                 ![e] = @ \cup {"Failed to export sessionStorage",
                                                "Saved sessionStorage"}]
    /\ EnterFinally(e, NoExc)
    /\ UNCHANGED <<clock, active_tasks, browser_task, req, start_time, history,
                   deadline_fired, cancel_resp, ncancels, signals>>
    /\ UNCHANGED <<storage_state_file, storage_state, init_script>>
    /\ UNCHANGED <<download_vars, results>>

(* run_agent_task, lines 102-123: browser.stop() returns or raises (logged). *)
(* An exception in flight goes on; otherwise downloads are reconciled and    *)
(* the result assembled, which raises if a query on the history does.        *)
browser_stop_done(e) ==
    /\ pc[e] = "stopping"
    /\ \E stopped \in BOOLEAN :
          browser' = [browser EXCEPT ![e] = IF stopped THEN "stopped" ELSE @]
    /\ IF raised[e] # NoExc
       THEN /\ BodyEnds(e, raised[e])
            /\ UNCHANGED <<download_vars, results>>
       ELSE LET run == handle_downloads(download_dir, tmp_download_dirs, clock) IN
            /\ download_dir' = run.download_dir
            /\ tmp_download_dirs' = run.tmp_download_dirs
            /\ IF result_processing_raises(history[e], req[e])
               THEN /\ BodyEnds(e, QueryError)
                    /\ results' = results
               ELSE BodyReturns(e, RunResult(history[e], req[e],
                                             run.downloaded_files))
    /\ UNCHANGED <<clock, active_tasks, browser_task, req, start_time, history,
                   deadline_fired, cancel_resp, ncancels, signals>>
    /\ UNCHANGED session_vars

----------------------------------------------------------------------------
(* asyncio.wait_for, lines 139-142 *)

(* The timer of wait_for is due: timeout seconds have passed since the call. *)
DeadlineReached(e) == clock - start_time[e] >= req[e].timeout

(* The timer fires while run_agent_task is suspended: wait_for cancels it,   *)
(* which raises CancelledError at the await where it is suspended, and keeps *)
(* waiting until run_agent_task has ended.  No except clause of the body     *)
(* catches CancelledError (they catch Exception); inside the try block the   *)
(* finally clause runs and awaits browser.stop(); a run suspended in         *)
(* browser.stop() leaves that await.                                         *)
wait_for_timeout(e) ==
    /\ pc[e] \in AwaitPcs
    /\ ~deadline_fired[e]
    /\ DeadlineReached(e)
    /\ deadline_fired' = [deadline_fired EXCEPT ![e] = TRUE]
    /\ IF pc[e] \in {"running", "exporting_state", "exporting_session"}
       THEN EnterFinally(e, CancelledError)
       ELSE BodyEnds(e, CancelledError) /\ browser' = browser
    /\ history' = [history EXCEPT ![e] = NoHistory]
    /\ UNCHANGED <<clock, active_tasks, browser_task, req, start_time,
                   cancel_resp, ncancels, signals>>
    /\ UNCHANGED <<session_vars, download_vars, results>>

----------------------------------------------------------------------------
(* POST /cancel/{task_id}, lines 255-280 *)
cancel_browser_task(task_id) ==
    /\ ncancels < MaxCancels
    /\ ncancels' = ncancels + 1
    /\ IF task_id \notin DOMAIN active_tasks
       THEN /\ cancel_resp' = [success |-> FALSE, task_id |-> task_id,
                               text |-> "Task not found or already completed",
                               partial_result |-> None]
            /\ UNCHANGED <<browser_task, signals>>
       ELSE LET e == active_tasks[task_id]
                task == browser_task[e]
            IN  /\ browser_task' = [browser_task EXCEPT ![e] = cancel(task)]
                /\ signals' = [signals EXCEPT ![e] = @ + cancel_signals(task)]
                /\ cancel_resp' = [success |-> TRUE, task_id |-> task_id,
                                   text |-> "Task cancelled",
                                   partial_result |-> get_partial_result(cancel(task))]
    /\ UNCHANGED <<clock, active_tasks, req, start_time, pc, raised, history,
                   browser, deadline_fired, response>>
    /\ UNCHANGED <<session_vars, download_vars, results>>

(* Time passes. *)
Tick ==
    /\ clock < MaxClock
    /\ clock' = clock + 1
    /\ UNCHANGED <<active_tasks, browser_task, req, start_time, pc, raised, history,
                   browser, deadline_fired, response, cancel_resp, ncancels, signals>>
    /\ UNCHANGED <<session_vars, download_vars, results>>

(* One execute_task call, with every fault of its collaborators and its      *)
(* deadline, and cancel calls at any moment.  The agent leaves the browser   *)
(* on one page, or on none.                                                  *)
FirstCall == {1}
LastPages == {NoPage, EarlierPage}

Next ==
    \/ \E e \in FirstCall, request \in Requests : execute_task(e, request)
    \/ \E e \in FirstCall : browser_start_done(e)
    \/ \E e \in FirstCall : restore_session_storage_done(e)
    \/ \E e \in FirstCall : agent_run_done(e)
    \/ \E e \in FirstCall : export_storage_state_done(e)
    \/ \E e \in FirstCall, pg \in LastPages : export_session_storage_done(e, pg)
    \/ \E e \in FirstCall : browser_stop_done(e)
    \/ \E e \in FirstCall : wait_for_timeout(e)
    \/ \E task_id \in CancelIds : cancel_browser_task(task_id)
    \/ Tick

Spec == Init /\ [][Next]_vars

(* Concurrent execute_task calls on the one event loop, with cancel calls at *)
(* any moment; the collaborators raise nothing and no deadline is reached.   *)
FailureLogs ==
    {"Failed to restore sessionStorage", "Failed to save session state",
     "Failed to export sessionStorage"}
(* No call raises to execute_task, and no query on a history raises. *)
NoRaise == \A e \in Execs : raised'[e] = NoExc /\ history'[e].raises = {}
NoFault == NoRaise /\ \A e \in Execs : log'[e] \cap FailureLogs = {}

(* No clock runs here, so one timeout stands for all; the classification of  *)
(* errors is not at stake, so one provider does.                             *)
ConcurrentRequests == {r \in Requests : r.timeout = 2 /\ r.llm_provider = "gemini"}

NextConcurrent ==
    \/ \E e \in Execs, request \in ConcurrentRequests :
          execute_task(e, request) /\ NoFault
    \/ \E e \in Execs : browser_start_done(e) /\ NoFault
    \/ \E e \in Execs : restore_session_storage_done(e) /\ NoFault
    \/ \E e \in Execs : agent_run_done(e) /\ NoFault
    \/ \E e \in Execs : export_storage_state_done(e) /\ NoFault
    \/ \E e \in Execs, pg \in LastPages :
          export_session_storage_done(e, pg) /\ NoFault
    \/ \E e \in Execs : browser_stop_done(e) /\ NoFault
    \/ \E task_id \in CancelIds : cancel_browser_task(task_id)

SpecConcurrent == Init /\ [][NextConcurrent]_vars

(* Session-enabled tasks of one identity, one after the other, each ending   *)
(* on any page: the session calls may fail, nothing else does.               *)
SessionRequests ==
    {r \in ConcurrentRequests : r.session_enabled /\ r.task_id = None}
OneAtATime == \A e \in Execs : pc[e] \in {"idle", "returned"}
(* What the agent answers is not at stake: one history stands for all. *)
PlainHistory == CHOOSE h \in Histories : h.steps = 2
PlainRun == NoRaise /\ \A e \in Execs : history'[e] \in {NoHistory, PlainHistory}

NextSession ==
    \/ \E e \in Execs, request \in SessionRequests :
          OneAtATime /\ execute_task(e, request) /\ NoRaise
    \/ \E e \in Execs : browser_start_done(e) /\ NoRaise
    \/ \E e \in Execs : restore_session_storage_done(e) /\ NoRaise
    \/ \E e \in Execs : agent_run_done(e) /\ PlainRun
    \/ \E e \in Execs : export_storage_state_done(e)
    \/ \E e \in Execs, pg \in Pages \cup {NoPage} : export_session_storage_done(e, pg)
    \/ \E e \in Execs : browser_stop_done(e)

SpecSession == Init /\ [][NextSession]_vars

(* The end of a run whose agent returned history h for request and whose     *)
(* finally clause has called browser.stop(): what is left is                 *)
(* run_agent_task, lines 108-123, and the response.                          *)
InitStopping(request, h) ==
    /\ clock = 1
    /\ active_tasks = (GeneratedId(1) :> 1)
    /\ browser_task = (1 :> BrowserTask(GeneratedId(1), None))
    /\ req = [e \in Execs |-> IF e = 1 THEN request ELSE NoRequest]
    /\ start_time = [e \in Execs |-> 0]
    /\ pc = [e \in Execs |-> IF e = 1 THEN "stopping" ELSE "idle"]
    /\ raised = [e \in Execs |-> NoExc]
    /\ history = [e \in Execs |-> IF e = 1 THEN h ELSE NoHistory]
    /\ browser = [e \in Execs |-> IF e = 1 THEN "stop_called" ELSE "none"]
    /\ deadline_fired = [e \in Execs |-> FALSE]
    /\ response = <<>>
    /\ cancel_resp = NoCancelResponse
    /\ ncancels = 0
    /\ signals = [e \in Execs |-> 0]
    /\ storage_state_file = NoFile
    /\ session_storage_file = NoFile
    /\ storage_state = [e \in Execs |-> None]
    /\ init_script = [e \in Execs |-> NoScript]
    /\ page = [e \in Execs |-> NoPage]
    /\ log = [e \in Execs |-> {}]
    /\ results = [e \in Execs |-> NoResult]

NextStopping == \E e \in FirstCall : browser_stop_done(e)

(* handle_downloads on the download directory and scratch directories a      *)
(* browser may have left.                                                    *)
MaxScratch == 2     \* scratch directories in /tmp

Entry(name, is_file, movable) ==
    [name |-> name, is_file |-> is_file, movable |-> movable]
(* What a scratch directory may hold: files that can be moved, a file whose  *)
(* move fails, a subdirectory.                                               *)
Listings ==
    { <<>>,
      <<Entry(ReportPdf, TRUE, TRUE)>>,
      <<Entry(ReportPdf, TRUE, FALSE)>>,
      <<Entry(ReportPdf, TRUE, TRUE), Entry(NotesTxt, TRUE, TRUE)>>,
      <<Entry(ReportPdf, TRUE, FALSE), Entry(NotesTxt, TRUE, TRUE)>>,
      <<Entry(<<"sub", "">>, FALSE, TRUE), Entry(NotesTxt, TRUE, TRUE)>> }

(* The d-th scratch directory with a listing: each file has its own content. *)
ScratchDir(d, listing, removable) ==
    [entries |-> [i \in 1..Len(listing) |->
                     [name |-> listing[i].name, is_file |-> listing[i].is_file,
                      movable |-> listing[i].movable,
                      content |-> [dir |-> d, idx |-> i]]],
     removable |-> removable]
ScratchStates ==
    UNION { { [d \in 1..n |-> ScratchDir(d, ls[d], rm[d])] :
                ls \in [1..n -> Listings], rm \in [1..n -> BOOLEAN] } :
            n \in 0..MaxScratch }

(* The download directory: empty, or with files of earlier reconciliations. *)
Kept(name, k) == [name |-> name, content |-> [dir |-> 0, idx |-> k]]
TargetStates ==
    { {}, {Kept(ReportPdf, 1)}, {Kept(ReportPdf, 1), Kept(NotesTxt, 2)} }

DownloadsRequest ==
    [task_id |-> None, timeout |-> 2, session_enabled |-> FALSE,
     llm_provider |-> "gemini", calculate_cost |-> TRUE, debug_mode |-> FALSE,
     customer_id |-> NoCustomer]

InitDownloads ==
    /\ InitStopping(DownloadsRequest, PlainHistory)
    /\ download_dir \in TargetStates
    /\ tmp_download_dirs \in ScratchStates

(* Lines 16-22 of result_processing.py: while the agent of run e runs, its   *)
(* browser downloads a file to the scratch directory browser-use made for    *)
(* that agent, /tmp/browser_use_agent_<e>/browseruse_agent_data, whatever    *)
(* downloads_path says.  One file for each run.                              *)
OwnedBy(e, contents) == {c \in contents : c.dir = e}
agent_downloads(e) ==
    /\ pc[e] = "running"
    /\ \A d \in 1..Len(tmp_download_dirs) :
          \A i \in 1..Len(tmp_download_dirs[d].entries) :
             tmp_download_dirs[d].entries[i].content.dir # e
    /\ \A f \in download_dir : f.content.dir # e
    /\ \E name \in {ReportPdf, NotesTxt} :
          tmp_download_dirs' =
             Append(tmp_download_dirs, ScratchDir(e, <<Entry(name, TRUE, TRUE)>>, TRUE))
    /\ UNCHANGED <<task_vars, session_vars, download_dir, results>>

(* Tasks running at the same time, nothing failing: the first call ends and  *)
(* reconciles its downloads while the agents of the others are still         *)
(* running.  download_dir is the download directory of the first call.       *)
NextSweep ==
    \/ \E e \in Execs : execute_task(e, DownloadsRequest) /\ NoFault
    \/ \E e \in Execs : browser_start_done(e) /\ NoFault
    \/ \E e \in Execs : agent_downloads(e)
    \/ \E e \in FirstCall : agent_run_done(e) /\ NoFault /\ PlainRun
    \/ \E e \in FirstCall : browser_stop_done(e) /\ NoFault
SpecSweep == Init /\ [][NextSweep]_vars

(* Session-enabled tasks of one identity running at the same time, nothing   *)
(* failing.  The browser of each run ends on a page whose sessionStorage     *)
(* holds an item that run set, so a snapshot tells which run exported it.    *)
PageOf(e) ==
    [origin |-> "https://a.example", sessionStorage |-> << <<"run", ToString(e)>> >>]
NextShared ==
    \/ \E e \in Execs, request \in SessionRequests :
          execute_task(e, request) /\ NoFault
    \/ \E e \in Execs : browser_start_done(e) /\ NoFault
    \/ \E e \in Execs : restore_session_storage_done(e) /\ NoFault
    \/ \E e \in Execs : agent_run_done(e) /\ NoFault /\ PlainRun
    \/ \E e \in Execs : export_storage_state_done(e) /\ NoFault
    \/ \E e \in Execs : export_session_storage_done(e, PageOf(e)) /\ NoFault
    \/ \E e \in Execs : browser_stop_done(e) /\ NoFault
SpecShared == Init /\ [][NextShared]_vars

(* One call under its deadline, without cancel requests.  The event loop     *)
(* runs every callback that is ready and the collaborators answer every      *)
(* await, so each step of the body that stays possible is taken; nothing     *)
(* makes the clock reach the deadline.                                       *)
DeadlineRequests ==
    {r \in Requests : r.task_id = None /\ r.llm_provider = "gemini"}
BodySteps(e) ==
    \/ browser_start_done(e)
    \/ restore_session_storage_done(e)
    \/ agent_run_done(e)
    \/ export_storage_state_done(e)
    \/ \E pg \in LastPages : export_session_storage_done(e, pg)
    \/ browser_stop_done(e)
    \/ wait_for_timeout(e)
NextDeadline ==
    \/ \E e \in FirstCall, request \in DeadlineRequests : execute_task(e, request)
    \/ \E e \in FirstCall : BodySteps(e)
    \/ Tick
SpecDeadline ==
    Init /\ [][NextDeadline]_vars /\ \A e \in FirstCall : WF_vars(BodySteps(e))

(* Calls of tasks of several identities: the set-up that gives each call its *)
(* paths.                                                                    *)
IdentityRequests ==
    [task_id : {None}, timeout : {2}, session_enabled : BOOLEAN,
     llm_provider : {"gemini"}, calculate_cost : {TRUE}, debug_mode : {FALSE},
     customer_id : CustomerIds]
NextIdentity ==
    \E e \in Execs, request \in IdentityRequests : execute_task(e, request)
SpecIdentity == Init /\ [][NextIdentity]_vars

SpecDownloads == InitDownloads /\ [][NextStopping]_vars

(* The result processing on every kind of history: any one query raising,    *)
(* with and without a judgement, for every setting of the request.           *)
(* history.usage: with a total_cost (1, or 0) and token counts, with token  *)
(* counts only, or missing.                                                  *)
UsageRecords ==
    { [cost |-> {1}, usage_tokens |-> TRUE], [cost |-> {0}, usage_tokens |-> TRUE],
      [cost |-> {}, usage_tokens |-> TRUE], [cost |-> {}, usage_tokens |-> FALSE] }
(* A run whose first step had no error and whose second failed with a long  *)
(* error text.                                                               *)
LongErrorHistory ==
    [NoHistory EXCEPT !.has_errors = TRUE, !.urls = <<"u1">>, !.steps = 2,
                      !.errors = <<None, LongError, "boom">>, !.duration = 2,
                      !.model_thoughts = <<"open", "retry">>]
ReportHistories ==
    { [h EXCEPT !.raises = r, !.judgement = j, !.cost = u.cost,
                !.usage_tokens = u.usage_tokens] :
        h \in {x \in Histories : x.raises = {}} \cup {LongErrorHistory},
        r \in {{}} \cup {{q} : q \in Queries},
        j \in Judgements,
        u \in UsageRecords }
ReportRequests ==
    [task_id : {None}, timeout : {2}, session_enabled : {FALSE},
     llm_provider : Providers, calculate_cost : BOOLEAN, debug_mode : BOOLEAN,
     customer_id : {NoCustomer}]

InitReport ==
    /\ \E request \in ReportRequests, h \in ReportHistories :
          InitStopping(request, h)
    /\ download_dir = {}
    /\ tmp_download_dirs = <<>>

SpecReport == InitReport /\ [][NextStopping]_vars

----------------------------------------------------------------------------
(* Properties of the task lifecycle. *)

NotFoundText == "Task not found or already completed"

(* The execute_task call of e has returned its response. *)
Returned(e) == pc[e] = "returned"

(* The step in which the execute_task call of e returns its response. *)
Returns(e) == pc[e] # "returned" /\ pc'[e] = "returned"

(* The record of e was cancelled before this step. *)
CancelledBefore(e) == e \in DOMAIN browser_task /\ browser_task[e].cancelled

(* C1. Cancellation idempotence: a cancel on an id that was cancelled before, *)
(* or whose execute_task call has returned, answers success=false with the    *)
(* 'not found or already completed' text; a cancel on an id never registered  *)
(* answers the same and changes neither the registry nor any task record.     *)
C1_CancelIdempotent ==
    [][\A id \in CancelIds :
          cancel_browser_task(id) =>
             IF id \in DOMAIN active_tasks
             THEN (browser_task[active_tasks[id]].cancelled \/ Returned(active_tasks[id]))
                     => /\ cancel_resp'.success = FALSE
                        /\ cancel_resp'.text = NotFoundText
             ELSE /\ cancel_resp'.success = FALSE
                  /\ cancel_resp'.text = NotFoundText
                  /\ active_tasks' = active_tasks
                  /\ browser_task' = browser_task]_vars

(* C2. Terminal states are final: once the execute_task call of a task has    *)
(* returned, no step changes the task's record (status, cancelled flag).      *)
C2_TerminalFinal ==
    [][\A e \in Execs : Returned(e) => browser_task'[e] = browser_task[e]]_vars

(* C3. The browser is released on every exit path: when run_agent_task has    *)
(* ended (returned, raised, or was cancelled by the deadline) and             *)
(* browser.start() was called in it, browser.stop() was called too.           *)
C3_BrowserReleased ==
    \A e \in Execs :
        (Returned(e) /\ browser[e] # "none")
            => browser[e] \in {"stop_called", "stopped"}

(* C4. Timeout outcome: a call whose deadline fired returns success=false,    *)
(* the timed-out error text, execution_time >= timeout, and every result      *)
(* field at its default.                                                      *)
C4_TimeoutOutcome ==
    \A e \in DOMAIN response :
        deadline_fired[e] =>
            /\ response[e].success = FALSE
            /\ response[e].error =
                  <<"Task timed out after ", ToString(req[e].timeout), " seconds">>
            /\ response[e].execution_time >= req[e].timeout
            /\ response[e].result = None
            /\ response[e].final_url = None
            /\ response[e].urls_visited = <<>>
            /\ response[e].steps_taken = 0
            /\ response[e].cost = {}

(* C4, reached: a call whose deadline fired while the agent was running has   *)
(* returned, after its finally clause stopped the browser.                    *)
C4_Witness ==
    \E e \in DOMAIN response : deadline_fired[e] /\ browser[e] = "stopped"

(* C5. Cancellation is a distinct outcome: a call whose task was cancelled    *)
(* while it was in flight answers success=false with error 'Task cancelled',  *)
(* whatever the execution did after the cancel.                               *)
C5_CancelledOutcome ==
    [][\A e \in Execs :
          (Returns(e) /\ CancelledBefore(e))
              => /\ response'[e].success = FALSE
                 /\ response'[e].error = <<"Task cancelled">>]_vars

(* C6. A cancel on a task whose record is RUNNING and whose browser is up     *)
(* moves the record to CANCELLED and sends a termination signal to the        *)
(* task's browser process.                                                    *)
C6_CancelSignalsBrowser ==
    [][\A id \in CancelIds :
          (/\ cancel_browser_task(id)
           /\ id \in DOMAIN active_tasks
           /\ browser_task[active_tasks[id]].status = "running"
           /\ browser[active_tasks[id]] = "started")
              => /\ browser_task'[active_tasks[id]].status = "cancelled"
                 /\ signals'[active_tasks[id]] = signals[active_tasks[id]] + 1]_vars

(* The terminal state that matches the way the call of e has ended. *)
OutcomeStatus(e) ==
    IF raised[e] = NoExc
    THEN IF browser_task[e].cancelled THEN "cancelled" ELSE "completed"
    ELSE IF deadline_fired[e] THEN "timed_out"
    ELSE "failed"

(* C7. Task state machine: registration creates the record in RUNNING, and    *)
(* when execute_task returns the record is in the terminal state matching the *)
(* outcome: never still RUNNING.                                              *)
C7_StateMachine ==
    [][\A e \in Execs :
          /\ (pc[e] = "idle" /\ pc'[e] = "starting")
                => browser_task'[e].status = "running"
          /\ Returns(e) => browser_task'[e].status = OutcomeStatus(e)']_vars

(* C8. Every task whose execution is in flight is in the registry under its   *)
(* task id, so that a cancel for the id reaches the task's own record.        *)
C8_RunningReachable ==
    \A e \in Execs :
        pc[e] \in AwaitPcs
            => /\ browser_task[e].task_id \in DOMAIN active_tasks
               /\ active_tasks[browser_task[e].task_id] = e

(* C9. Every response with success=false carries the time elapsed since the   *)
(* call started.                                                              *)
C9_FailureHasElapsed ==
    [][\A e \in Execs :
          (Returns(e) /\ ~response'[e].success)
              => response'[e].execution_time = clock' - start_time'[e]]_vars

(* C10. Every exception raised in the task body becomes a response with       *)
(* success=false, the exception's message as error, and the registered id.    *)
C10_ExceptionToResponse ==
    [][\A e \in Execs :
          (Returns(e) /\ raised'[e] \in Exceptions)
              => /\ response'[e].success = FALSE
                 /\ response'[e].error = raised'[e].msg
                 /\ response'[e].task_id = browser_task'[e].task_id]_vars

----------------------------------------------------------------------------
(* Properties of the session state. *)

(* The run of e is past restore_session_storage, which logged no failure. *)
Restored(e) ==
    /\ pc[e] \in {"running", "exporting_state", "exporting_session", "stopping",
                  "returned"}
    /\ "Failed to restore sessionStorage" \notin log[e]

(* C11. Session-storage round trip with origin gate: when a task exported    *)
(* the session storage of a page with origin O and data D and the next task  *)
(* restored it, a fresh page of origin O gets exactly D in its               *)
(* sessionStorage, and a fresh page of another origin gets nothing.          *)
C11_SessionRoundTrip ==
    \A e \in Execs :
        (e > 1 /\ "Exported sessionStorage" \in log[e - 1] /\ Restored(e))
            => \A o \in Origins :
                  Items(RunInitScript(init_script[e], FreshPage(o)).sessionStorage)
                    = IF o = page[e - 1].origin
                      THEN Items(page[e - 1].sessionStorage)
                      ELSE Items(<<>>)

(* C11, reached: the second task runs with the script restored from the      *)
(* first task's export of a page with two items.                             *)
C11_Witness ==
    \E e \in Execs :
        /\ e > 1
        /\ "Exported sessionStorage" \in log[e - 1]
        /\ Len(page[e - 1].sessionStorage) = 2
        /\ pc[e] = "running"
        /\ init_script[e].installed

(* A session_storage file that is missing, does not parse, or has no data. *)
Unusable(file) ==
    \/ file = NoFile
    \/ file = TruncatedFile
    \/ \E o \in Origins : file = File(JSON_stringify(o, <<>>))

(* C12. Absent session state is a normal state: with no storage_state file   *)
(* the browser is created without storage state; with a session_storage     *)
(* file that is missing, unparsable or without data, the run goes from       *)
(* browser.start() straight on to run the agent, with no script installed    *)
(* and no error; and no script is installed later in the run.                *)
C12_AbsentSessionState ==
    [][\A e \in Execs :
          /\ (pc[e] = "idle" /\ pc'[e] = "starting" /\ ~storage_state_file.exists)
                => storage_state'[e] = None
          /\ (/\ pc[e] = "starting" /\ pc'[e] # "starting"
              /\ req[e].session_enabled
              /\ Unusable(session_storage_file))
                => /\ pc'[e] = "running"
                   /\ raised'[e] = NoExc
                   /\ ~init_script'[e].installed
          /\ pc[e] \notin {"starting", "restoring"}
                => init_script'[e] = init_script[e]]_vars

(* C12, reached: a first task that found no session files has returned, and  *)
(* the second runs its agent though the first left a truncated file.         *)
C12_Witness ==
    /\ pc[1] = "returned"
    /\ storage_state[1] = None
    /\ "No sessionStorage file found" \in log[1]
    /\ pc[2] = "running"
    /\ session_storage_file = TruncatedFile
    /\ ~init_script[2].installed

(* C13. Session state is exported only while the browser is live: a run that *)
(* is exporting storage_state or the session_storage snapshot has had        *)
(* browser.start() return and has not called browser.stop().                 *)
C13_ExportWhileLive ==
    \A e \in Execs :
        pc[e] \in {"exporting_state", "exporting_session"} => browser[e] = "started"

(* C13, reached: a run is exporting the session_storage snapshot. *)
C13_Witness ==
    \E e \in Execs : pc[e] = "exporting_session" /\ browser[e] = "started"

(* The failures of the session export that are logged in this step. *)
ExportFailureLogs ==
    {"Failed to save session state", "Failed to export sessionStorage",
     "No active page"}
ExportFailsNow(e) == (log'[e] \ log[e]) \cap ExportFailureLogs # {}

(* C14. Session persistence is best effort: when an export fails the run     *)
(* goes on to stop the browser with no exception in flight, and a run that   *)
(* returns answers with the report made from its history and its downloads   *)
(* alone, whatever the exports did.                                          *)
C14_BestEffortExport ==
    [][\A e \in Execs :
          /\ ExportFailsNow(e)
                => /\ pc'[e] = "stopping"
                   /\ raised'[e] = NoExc
                   /\ browser'[e] = "stop_called"
          /\ (Returns(e) /\ raised'[e] = NoExc /\ ~browser_task[e].cancelled)
                => response'[e] =
                      CompletedResponse(
                          browser_task[e].task_id,
                          RunResult(history[e], req[e],
                                    handle_downloads(download_dir, tmp_download_dirs,
                                                     clock).downloaded_files),
                          clock - start_time[e])]_vars

(* C14, reached: a run whose session_storage export failed has returned a    *)
(* successful response, its browser stopped.                                 *)
C14_Witness ==
    \E e \in DOMAIN response :
        /\ "Failed to export sessionStorage" \in log[e]
        /\ raised[e] = NoExc
        /\ browser[e] = "stopped"
        /\ response[e].success

----------------------------------------------------------------------------
(* Properties of the download reconciliation. *)

(* The step in which the run of e, its browser stopped and no exception in   *)
(* flight, reconciles its downloads and ends.                                *)
Reconciles(e) == pc[e] = "stopping" /\ raised[e] = NoExc /\ Returns(e)

(* The regular files of the scratch directories, in the order of the loop. *)
RegularFiles(dirs) == SelectSeq(ScratchEntries(dirs, 1), LAMBDA f : f.is_file)

(* No move and no rmtree fails. *)
NoMoveFails(dirs) ==
    /\ \A i \in 1..Len(dirs) : dirs[i].removable
    /\ \A i \in 1..Len(RegularFiles(dirs)) : RegularFiles(dirs)[i].movable

(* C15. Download reconciliation never overwrites a file: when nothing fails, *)
(* every file that was in the target directory is still there with its       *)
(* content, every scratch file is there with its own content under its name  *)
(* or the timestamp-suffixed name, and no scratch directory is left.         *)
C15_NoOverwrite ==
    [][\A e \in Execs :
          (Reconciles(e) /\ NoMoveFails(tmp_download_dirs))
              => /\ \A f \in download_dir : f \in download_dir'
                 /\ \A i \in 1..Len(RegularFiles(tmp_download_dirs)) :
                       LET file == RegularFiles(tmp_download_dirs)[i] IN
                       \E f \in download_dir' :
                          /\ f.content = file.content
                          /\ f.name \in {file.name, Timestamped(file.name, clock)}
                 /\ tmp_download_dirs' = <<>>]_vars

(* C16. A per-file move failure does not abort reconciliation: every regular *)
(* scratch file is attempted, handle_downloads does not raise, the list it   *)
(* returns names the files whose move succeeded, in order, relative to the   *)
(* Downloads root; with no scratch directory the list is empty and the       *)
(* target directory unchanged.                                               *)
C16_MoveFailureIsolated ==
    [][\A e \in Execs :
          Reconciles(e) =>
             LET run == handle_downloads(download_dir, tmp_download_dirs, clock)
                 regular == RegularFiles(tmp_download_dirs)
                 movable == SelectSeq(regular, LAMBDA f : f.movable)
             IN  /\ raised'[e] = NoExc
                 /\ run.attempted = [i \in 1..Len(regular) |-> regular[i].content]
                 /\ run.moved = [i \in 1..Len(movable) |-> movable[i].content]
                 /\ Len(results'[e].downloaded_files) = Len(movable)
                 /\ \A i \in 1..Len(movable) :
                       /\ results'[e].downloaded_files[i].dir = TaskDir
                       /\ results'[e].downloaded_files[i].name
                             \in {movable[i].name, Timestamped(movable[i].name, clock)}
                 /\ response'[e].downloaded_files = results'[e].downloaded_files
                 /\ tmp_download_dirs = <<>>
                       => /\ results'[e].downloaded_files = <<>>
                          /\ download_dir' = download_dir]_vars

(* C16, reached: a run has returned the one file it could move out of a      *)
(* scratch directory whose first file could not be moved.                    *)
C16_Witness ==
    \E e \in DOMAIN response :
        /\ response[e].downloaded_files = <<RelativePath(NotesTxt)>>
        /\ download_dir = {[name |-> NotesTxt, content |-> [dir |-> 1, idx |-> 2]]}
        /\ Len(tmp_download_dirs) = 1
        /\ Len(tmp_download_dirs[1].entries) = 1
        /\ ~tmp_download_dirs[1].entries[1].movable

----------------------------------------------------------------------------
(* Properties of the result processing. *)

(* The step in which run_agent_task of e returns its dict. *)
ReturnsReport(e) == Reconciles(e) /\ raised'[e] = NoExc

(* The error text of the histories that contains 'rate_limit_exceeded'. *)
RateLimitText == "429 rate_limit_exceeded"
IsIn(text, seq) == \E i \in 1..Len(seq) : seq[i] = text

(* C17. Error classification is gated by provider: for a history with an     *)
(* error containing 'rate_limit_exceeded', under provider openai the report  *)
(* has the rate-limit flag and the response error is the rate-limit          *)
(* guidance; under another provider no flag is set and the error is in the   *)
(* report's error list and in the response error as it was.                  *)
C17_ProviderGatedClassification ==
    [][\A e \in Execs :
          (/\ ReturnsReport(e)
           /\ ~browser_task[e].cancelled
           /\ IsIn(RateLimitText, history[e].errors))
              => /\ results'[e].errors = history[e].errors
                 /\ IF req[e].llm_provider = "openai"
                    THEN /\ results'[e].openai_rate_limit
                         /\ response'[e].error[1] = "OpenAI API rate limit reached."
                    ELSE /\ ~results'[e].openai_rate_limit
                         /\ ~results'[e].openai_empty_json
                         /\ IsIn(RateLimitText, response'[e].error)
                         /\ response'[e].error[1] # "OpenAI API rate limit reached."]_vars

(* C17, reached: a response with the rate-limit guidance. *)
C17_Witness ==
    \E e \in DOMAIN response :
        /\ req[e].llm_provider = "openai"
        /\ results[e].openai_rate_limit
        /\ IsIn(RateLimitText, results[e].errors)
        /\ response[e].error[1] = "OpenAI API rate limit reached."

(* C18. The aggregator always returns a report: whatever query on the        *)
(* history raises, the run returns a dict with the basic keys and            *)
(* execute_task gets no exception from it.                                   *)
C18_AlwaysReturnsReport ==
    [][\A e \in Execs :
          Reconciles(e)
              => /\ raised'[e] = NoExc
                 /\ BasicKeys \subseteq results'[e].keys]_vars

(* C19. A history that raises when asked for the judgement and answers every *)
(* other query, or that has no judgement, gives a report with no judge       *)
(* verdict and every other field as for a history without a verdict.         *)
C19_JudgeVerdictOptional ==
    [][\A e \in Execs :
          (/\ Reconciles(e)
           /\ history[e].raises \subseteq {"judgement"}
           /\ ("judgement" \in history[e].raises \/ ~history[e].judgement.given))
              => /\ raised'[e] = NoExc
                 /\ results'[e].judge_verdict = NoVerdict
                 /\ results'[e] =
                       RunResult([history[e] EXCEPT !.raises = {},
                                                    !.judgement = NoJudgement],
                                 req[e],
                                 handle_downloads(download_dir, tmp_download_dirs,
                                                  clock).downloaded_files)]_vars

(* C19, reached: a report without verdict from a history whose judgement     *)
(* query raised.                                                             *)
C19_Witness ==
    \E e \in DOMAIN response :
        /\ history[e].raises = {"judgement"}
        /\ history[e].judgement.given
        /\ "judge_verdict" \in results[e].keys
        /\ results[e].judge_verdict = NoVerdict
        /\ results[e].steps = 2

(* C20, as amended. Debug bundle: the assembled report always has the        *)
(* debug_data key; with debug_mode=false its value is none, with             *)
(* debug_mode=true it is a bundle whose performance.steps equals the step    *)
(* count of the same report.                                                 *)
C20_DebugBundle ==
    [][\A e \in Execs :
          ReturnsReport(e)
              => /\ "debug_data" \in results'[e].keys
                 /\ IF req[e].debug_mode
                    THEN /\ ~results'[e].debug_data.is_none
                         /\ results'[e].debug_data.performance.steps
                               = results'[e].steps
                    ELSE results'[e].debug_data.is_none]_vars

(* C20, reached: a report of two steps with its debug bundle. *)
C20_Witness ==
    \E e \in DOMAIN response :
        /\ req[e].debug_mode
        /\ results[e].steps = 2
        /\ results[e].debug_data.performance.steps = 2

(* C20 as stated: with debug_mode=false the report has no debug_data key at  *)
(* all; with debug_mode=true it has the bundle with the report's step count. *)
C20_DebugBundleKeyAbsent ==
    [][\A e \in Execs :
          ReturnsReport(e)
              => IF req[e].debug_mode
                 THEN /\ "debug_data" \in results'[e].keys
                      /\ ~results'[e].debug_data.is_none
                      /\ results'[e].debug_data.performance.steps = results'[e].steps
                 ELSE "debug_data" \notin results'[e].keys]_vars

(* C21. Missing cost is reported as absence, never as zero: with             *)
(* calculate_cost, a usage record that is missing, has no cost, or whose     *)
(* extraction fails gives cost none and a call count equal to the step       *)
(* count; a number is reported as cost only when the usage record supplied   *)
(* it.                                                                       *)
C21_MissingCostIsAbsence ==
    [][\A e \in Execs :
          ReturnsReport(e)
              => /\ response'[e].cost = results'[e].cost
                 /\ results'[e].cost # {}
                      => /\ req[e].calculate_cost
                         /\ "usage" \notin history[e].raises
                         /\ results'[e].cost = history[e].cost
                 /\ (req[e].calculate_cost
                        /\ (history[e].cost = {} \/ "usage" \in history[e].raises))
                      => /\ "cost" \in results'[e].keys
                         /\ results'[e].cost = {}
                         /\ results'[e].llm_calls = results'[e].steps
                         /\ response'[e].llm_calls = history[e].steps]_vars

(* C21, reached: a report with cost none and the step count as call count,   *)
(* from a history whose usage query failed though it held a cost.            *)
C21_Witness ==
    \E e \in DOMAIN response :
        /\ req[e].calculate_cost
        /\ history[e].raises = {"usage"}
        /\ history[e].cost = {0}
        /\ "cost" \in results[e].keys
        /\ results[e].cost = {}
        /\ results[e].llm_calls = 2

----------------------------------------------------------------------------
(* Properties of the identity. *)

(* The call e has made its set-up. *)
SetUp(e) == pc[e] # "idle"

(* C22. Identity namespacing: a task without customer_id uses the 'default'  *)
(* bucket, a task with a customer_id (any integer, 0 included) a namespace   *)
(* derived from the id; two tasks use the same session-state files and the   *)
(* same download subtree if and only if their identities are equal.          *)
C22_IdentityNamespacing ==
    \A e1, e2 \in Execs :
        (SetUp(e1) /\ SetUp(e2))
            => /\ req[e1].customer_id = NoCustomer
                    <=> customer_dir(req[e1]).bucket = "default"
               /\ setup_directories(e1, req[e1]).dir = setup_directories(e2, req[e2]).dir
                    <=> req[e1].customer_id = req[e2].customer_id
               /\ (req[e1].session_enabled /\ req[e2].session_enabled)
                    => (setup_browser_profile(req[e1]) = setup_browser_profile(req[e2])
                          <=> req[e1].customer_id = req[e2].customer_id)

----------------------------------------------------------------------------
(* Properties of the deadline. *)

(* C23. Resources of an abandoned execution are eventually reclaimed: once   *)
(* the deadline of a call has expired, wherever its body was, browser.stop() *)
(* is eventually called on the browser started for it.                       *)
C23_ReclaimedAfterDeadline ==
    \A e \in Execs :
        (deadline_fired[e] /\ browser[e] # "none")
            ~> (browser[e] \in {"stop_called", "stopped"})

(* C24. On deadline expiry the timeout response is returned at once: the     *)
(* step in which the timer of a call fires is the step in which execute_task *)
(* returns the timeout response, whatever the clean-up of the abandoned body *)
(* still has to do.                                                          *)
C24_TimeoutReturnsAtOnce ==
    [][\A e \in Execs :
          (~deadline_fired[e] /\ deadline_fired'[e])
              => /\ pc'[e] = "returned"
                 /\ e \in DOMAIN response'
                 /\ response'[e] = TimeoutResponse(browser_task[e].task_id,
                                                  req[e].timeout,
                                                  clock - start_time[e])]_vars

----------------------------------------------------------------------------
(* Properties of the order of the session steps. *)

(* C25. Session-storage restoration is ordered inside the run: the restore   *)
(* script of a call is installed only in a session-enabled run, by the step  *)
(* that ends the await of _cdp_add_init_script, with browser.start()         *)
(* completed and before the agent has run; once installed it is not          *)
(* installed again or changed.                                               *)
C25_RestoreOrdered ==
    [][\A e \in Execs :
          /\ (~init_script[e].installed /\ init_script'[e].installed)
                => /\ req[e].session_enabled
                   /\ pc[e] = "restoring"
                   /\ browser[e] = "started"
                   /\ history[e] = NoHistory
                   /\ pc'[e] \in {"running", "returned"}
          /\ init_script[e].installed => init_script'[e] = init_script[e]]_vars

(* C25, reached: the agent runs with the restore script installed. *)
C25_Witness ==
    \E e \in Execs :
        /\ pc[e] = "running"
        /\ init_script[e].installed
        /\ init_script[e].storage # <<>>
        /\ browser[e] = "started"

(* The session-state files of the identity. *)
session_files == <<storage_state_file, session_storage_file>>

(* C26. Session-state files are written only on completion of a              *)
(* session-enabled task: a step changes a file only as a step of a call with *)
(* session_enabled whose agent.run has returned a history, with no exception *)
(* in flight and its deadline not expired; a call whose agent.run raised or  *)
(* timed out changes neither file; a call without session_enabled is given   *)
(* no storage_state, installs no restore script and changes neither file.    *)
C26_FilesWrittenOnCompletion ==
    [][/\ session_files' # session_files
          => \E e \in Execs :
                /\ pc[e] \in {"exporting_state", "exporting_session"}
                /\ pc'[e] # pc[e]
                /\ req[e].session_enabled
                /\ history[e] \in Histories
                /\ raised[e] = NoExc
                /\ ~deadline_fired[e]
       /\ \A e \in Execs :
             ~req'[e].session_enabled
                => /\ storage_state'[e] = None
                   /\ init_script'[e] = NoScript
                   /\ log'[e] = {}
                   /\ pc[e] # "idle" /\ pc'[e] # pc[e]
                        => session_files' = session_files]_vars

(* C26, reached: a session-enabled call whose agent.run returned has         *)
(* replaced both files of an earlier task.                                   *)
C26_Witness ==
    \E e \in DOMAIN response :
        /\ req[e].session_enabled
        /\ storage_state[e] # None
        /\ {"Saved storage_state", "Exported sessionStorage"} \subseteq log[e]
        /\ storage_state_file = StorageStateOf(e)
        /\ session_storage_file.exists
        /\ PreparedScript(session_storage_file) # init_script[e]

(* C27. The two session artifacts are exported independently: when the       *)
(* export of storage_state fails in a run whose agent.run returned, the      *)
(* export of the session_storage snapshot is still called; and the end of    *)
(* the snapshot export, failed or not, leaves the storage_state file as it   *)
(* was exported.                                                             *)
C27_ExportsIndependent ==
    [][\A e \in Execs :
          /\ ("Failed to save session state" \in log'[e]
                 /\ "Failed to save session state" \notin log[e])
                => pc'[e] = "exporting_session"
          /\ (pc[e] = "exporting_session" /\ pc'[e] # pc[e])
                => storage_state_file' = storage_state_file]_vars

----------------------------------------------------------------------------
(* Further properties of the download reconciliation. *)

(* The contents held by the entries of scratch directories. *)
ScratchContents(dirs) ==
    {ScratchEntries(dirs, 1)[i].content : i \in 1..Len(ScratchEntries(dirs, 1))}

(* C28. Reconciliation loses no downloaded file: after handle_downloads      *)
(* every file that was in a scratch directory is in the target directory or  *)
(* still in a scratch directory, and a file whose move failed is still in    *)
(* its scratch directory.                                                    *)
C28_NoFileLost ==
    [][\A e \in Execs :
          Reconciles(e) =>
             \A i \in 1..Len(RegularFiles(tmp_download_dirs)) :
                LET file == RegularFiles(tmp_download_dirs)[i] IN
                /\ \/ \E f \in download_dir' : f.content = file.content
                   \/ file.content \in ScratchContents(tmp_download_dirs')
                /\ ~file.movable
                     => file.content \in ScratchContents(tmp_download_dirs')]_vars

(* C29. Classification augments and never replaces the raw errors: the       *)
(* report's error list is the history's non-empty errors in their order,     *)
(* whatever flag is set, and when the response error is the guidance for a   *)
(* classified error, the whole text of every raw error is in the response    *)
(* error.                                                                    *)
C29_RawErrorsKept ==
    [][\A e \in Execs :
          ReturnsReport(e)
              => /\ results'[e].errors = SelectSeq(history[e].errors,
                                                   LAMBDA x : x # None)
                 /\ (results'[e].openai_rate_limit \/ results'[e].openai_empty_json)
                      => \A i \in 1..Len(results'[e].errors) :
                            IsIn(results'[e].errors[i], response'[e].error)]_vars

(* C30. Success determination on the normal path: the response of a call     *)
(* that ran to completion and was not cancelled has success=true if          *)
(* is_successful is true, or is_done is true, or there is a final result and *)
(* no errors; otherwise success=false.                                       *)
C30_SuccessDetermination ==
    [][\A e \in Execs :
          (ReturnsReport(e) /\ ~browser_task[e].cancelled)
              => response'[e].success
                    = \/ history[e].is_successful = "True"
                      \/ history[e].is_done
                      \/ (history[e].final_result # None /\ ~history[e].has_errors)]_vars

----------------------------------------------------------------------------
(* Properties of concurrent tasks. *)

(* The snapshot file the export of run e writes from its page. *)
SnapshotOf(e) ==
    File(json_dump(json_loads(JSON_stringify(PageOf(e).origin,
                                             PageOf(e).sessionStorage))))

(* C33. Consistency of an identity's session state under concurrent tasks:   *)
(* once the session-enabled tasks of the identity have all ended, the        *)
(* storage_state file and the session_storage file were written by the       *)
(* export of the same task, never one by one task and one by another.        *)
C33_SessionPairConsistent ==
    (\A e \in Execs : pc[e] \in {"idle", "returned"})
        => \A e1, e2 \in Execs :
              (storage_state_file = StorageStateOf(e1)
                 /\ session_storage_file = SnapshotOf(e2))
                    => e1 = e2

(* C31. Download isolation between concurrent tasks: the files the           *)
(* reconciliation of a task moves into its download directory and lists in   *)
(* its downloaded_files are files its own browser wrote, and it leaves the   *)
(* files of the other tasks where they are.                                  *)
C31_DownloadIsolation ==
    [][\A e \in Execs :
          Reconciles(e) =>
             LET run == handle_downloads(download_dir, tmp_download_dirs, clock) IN
             /\ \A i \in 1..Len(run.moved) : run.moved[i].dir = e
             /\ Len(results'[e].downloaded_files)
                   = Cardinality(OwnedBy(e, ScratchContents(tmp_download_dirs)))
             /\ \A f \in download_dir' : f.content.dir = e
             /\ \A c \in ScratchContents(tmp_download_dirs) :
                   c.dir # e => c \in ScratchContents(tmp_download_dirs')]_vars

(* C32. Working-directory confinement under concurrency: while the agent of  *)
(* a task is running, the working directory of the process is the download   *)
(* directory of that task.                                                   *)
C32_WorkingDirectoryConfined ==
    \A e \in Execs : pc[e] = "running" => cwd = setup_directories(e, req[e])

====
